---- MODULE Spec2Model ----
(***************************************************************************)
(* A model of the episode index build of data-processor.js                 *)
(* (class EpisodeProcessor), of the pure functions it is made of, and of   *)
(* the edges app.js (initKnowledgeGraph) makes of the index.               *)
(*                                                                         *)
(* Strings are sequences of characters.  An ASCII character is the         *)
(* one-character string itself, any other character is written by its      *)
(* code point ("U+756A" is the first character of the extra-episode        *)
(* prefix), and "\n" is the line feed.  An array is a sequence, an object  *)
(* a record; a property that has not been assigned is a field the record   *)
(* does not have.                                                          *)
(***************************************************************************)
EXTENDS Integers, Sequences, FiniteSets, TLC

VARIABLES
    sourceDir,    \* what fs.readdirSync(this.sourceDir) returns: file names, in directory order
    fileContent,  \* file name -> text of the file (fs.readFileSync)
    pc,           \* position of the build script
    files,        \* processAllFiles: the filtered listing
    fileIdx,      \* processAllFiles: index of the next file of the first pass
    episodes,     \* this.episodes
    relIdx,       \* processAllFiles: index of the next episode of the second pass
    index,        \* the index written by saveIndex (generateIndex), Null before
    themesFile,   \* the theme list written by saveIndex (getAllThemes), Null before
    results,      \* the episodes of each return of processAllFiles, as they were then
    page,         \* position of the page of app.js
    response,     \* the index the page's fetch has resolved with, Null before
    appEpisodes,  \* this.episodes of the page
    edges,        \* the array edges of the page's initKnowledgeGraph, Null before
    call          \* a direct call of a pure function: its arguments and results

\* The state of the page.
pageVars == <<page, response, appEpisodes, edges>>

vars == <<sourceDir, fileContent, pc, files, fileIdx, episodes, relIdx, index, themesFile,
          results, page, response, appEpisodes, edges, call>>

\* JavaScript's null; no string of the program that is compared with it is empty.
Null == <<>>

(***************************************************************************)
(* String operations                                                       *)
(***************************************************************************)

Min(a, b) == IF a <= b THEN a ELSE b

\* Whether t occurs in s at position i.
OccursAt(s, t, i) ==
    /\ i >= 1
    /\ i + Len(t) - 1 <= Len(s)
    /\ \A k \in 1..Len(t) : s[i + k - 1] = t[k]

\* String.prototype.includes
includes(s, t) == \E i \in 1..(Len(s) - Len(t) + 1) : OccursAt(s, t, i)

\* String.prototype.startsWith
startsWith(s, t) == OccursAt(s, t, 1)

\* String.prototype.endsWith
endsWith(s, t) == Len(t) <= Len(s) /\ OccursAt(s, t, Len(s) - Len(t) + 1)

\* The position of the first occurrence of character c in s at or after i,
\* Len(s) + 1 when there is none.
IndexOfChar(s, c, i) ==
    LET at == {k \in i..Len(s) : s[k] = c}
    IN  IF at = {} THEN Len(s) + 1 ELSE CHOOSE k \in at : \A j \in at : k <= j

\* String.prototype.split with a one-character separator.
RECURSIVE split(_, _)
split(s, c) ==
    LET p == IndexOfChar(s, c, 1)
    IN  IF p > Len(s) THEN <<s>>
        ELSE <<SubSeq(s, 1, p - 1)>> \o split(SubSeq(s, p + 1, Len(s)), c)

\* The characters \s and trim() take for white space (those the model's texts use).
WhiteSpace == {" ", "\t", "\r", "\n", "U+3000"}

\* The first position at or after i that holds no white space.
RECURSIVE SkipSpace(_, _)
SkipSpace(s, i) ==
    IF i <= Len(s) /\ s[i] \in WhiteSpace THEN SkipSpace(s, i + 1) ELSE i

\* The last position at or before i that holds no white space.
RECURSIVE SkipSpaceBack(_, _)
SkipSpaceBack(s, i) ==
    IF i >= 1 /\ s[i] \in WhiteSpace THEN SkipSpaceBack(s, i - 1) ELSE i

\* String.prototype.trim
trim(s) == SubSeq(s, SkipSpace(s, 1), SkipSpaceBack(s, Len(s)))

\* \d of a regular expression without the u flag: the ASCII digits.
Digit == {"0", "1", "2", "3", "4", "5", "6", "7", "8", "9"}

DigitValue(c) ==
    CASE c = "0" -> 0 [] c = "1" -> 1 [] c = "2" -> 2 [] c = "3" -> 3 [] c = "4" -> 4
      [] c = "5" -> 5 [] c = "6" -> 6 [] c = "7" -> 7 [] c = "8" -> 8 [] c = "9" -> 9

\* The first position at or after i that holds no digit: where a greedy \d* stops.
RECURSIVE SkipDigits(_, _)
SkipDigits(s, i) ==
    IF i <= Len(s) /\ s[i] \in Digit THEN SkipDigits(s, i + 1) ELSE i

\* parseInt of a string that starts with a digit: the value of its leading digits.
RECURSIVE DecimalValue(_, _)
DecimalValue(s, n) ==
    IF n = 0 THEN 0 ELSE 10 * DecimalValue(s, n - 1) + DigitValue(s[n])

parseInt(s) == DecimalValue(s, SkipDigits(s, 1) - 1)

\* The decimal numeral of n.
RECURSIVE Numeral(_)
Numeral(n) ==
    LET d == <<"0", "1", "2", "3", "4", "5", "6", "7", "8", "9">>
    IN  IF n < 10 THEN <<d[n + 1]>> ELSE Numeral(n \div 10) \o <<d[(n % 10) + 1]>>

\* new Set(array): the elements of an array.
ToSet(arr) == {arr[k] : k \in DOMAIN arr}

\* The lines of a text joined by line feeds.
RECURSIVE JoinLines(_)
JoinLines(ls) ==
    IF Len(ls) = 0 THEN <<>>
    ELSE IF Len(ls) = 1 THEN ls[1]
    ELSE ls[1] \o <<"\n">> \o JoinLines(Tail(ls))

\* The UTF-16 code units of the characters of the model: printable ASCII characters, and
\* the others by the number their name spells in hexadecimal.
CodeUnits ==
    << <<"\t", 9>>, <<"\n", 10>>, <<"\r", 13>>, <<" ", 32>>, <<"!", 33>>,
       <<"#", 35>>, <<"$", 36>>, <<"%", 37>>, <<"&", 38>>, <<"'", 39>>,
       <<"(", 40>>, <<")", 41>>, <<"*", 42>>, <<"+", 43>>, <<",", 44>>,
       <<"-", 45>>, <<".", 46>>, <<"/", 47>>, <<"0", 48>>, <<"1", 49>>,
       <<"2", 50>>, <<"3", 51>>, <<"4", 52>>, <<"5", 53>>, <<"6", 54>>,
       <<"7", 55>>, <<"8", 56>>, <<"9", 57>>, <<":", 58>>, <<";", 59>>,
       <<"<", 60>>, <<"=", 61>>, <<">", 62>>, <<"?", 63>>, <<"@", 64>>,
       <<"A", 65>>, <<"B", 66>>, <<"C", 67>>, <<"D", 68>>, <<"E", 69>>,
       <<"F", 70>>, <<"G", 71>>, <<"H", 72>>, <<"I", 73>>, <<"J", 74>>,
       <<"K", 75>>, <<"L", 76>>, <<"M", 77>>, <<"N", 78>>, <<"O", 79>>,
       <<"P", 80>>, <<"Q", 81>>, <<"R", 82>>, <<"S", 83>>, <<"T", 84>>,
       <<"U", 85>>, <<"V", 86>>, <<"W", 87>>, <<"X", 88>>, <<"Y", 89>>,
       <<"Z", 90>>, <<"[", 91>>, <<"]", 93>>, <<"^", 94>>, <<"_", 95>>,
       <<"a", 97>>, <<"b", 98>>, <<"c", 99>>, <<"d", 100>>, <<"e", 101>>,
       <<"f", 102>>, <<"g", 103>>, <<"h", 104>>, <<"i", 105>>, <<"j", 106>>,
       <<"k", 107>>, <<"l", 108>>, <<"m", 109>>, <<"n", 110>>, <<"o", 111>>,
       <<"p", 112>>, <<"q", 113>>, <<"r", 114>>, <<"s", 115>>, <<"t", 116>>,
       <<"u", 117>>, <<"v", 118>>, <<"w", 119>>, <<"x", 120>>, <<"y", 121>>,
       <<"z", 122>>, <<"{", 123>>, <<"|", 124>>, <<"}", 125>>, <<"~", 126>>,
       <<"U+25C6", 9670>>, <<"U+3000", 12288>>, <<"U+3001", 12289>>, <<"U+3046", 12358>>, <<"U+304D", 12365>>,
       <<"U+3064", 12388>>, <<"U+3068", 12392>>, <<"U+306E", 12398>>, <<"U+30A2", 12450>>, <<"U+30A4", 12452>>,
       <<"U+30A6", 12454>>, <<"U+30A7", 12455>>, <<"U+30A8", 12456>>, <<"U+30AD", 12461>>, <<"U+30B0", 12464>>,
       <<"U+30B1", 12465>>, <<"U+30B3", 12467>>, <<"U+30B5", 12469>>, <<"U+30B7", 12471>>, <<"U+30B8", 12472>>,
       <<"U+30B9", 12473>>, <<"U+30BB", 12475>>, <<"U+30BD", 12477>>, <<"U+30BF", 12479>>, <<"U+30C4", 12484>>,
       <<"U+30C6", 12486>>, <<"U+30C7", 12487>>, <<"U+30C8", 12488>>, <<"U+30C9", 12489>>, <<"U+30CD", 12493>>,
       <<"U+30CF", 12495>>, <<"U+30D3", 12499>>, <<"U+30D4", 12500>>, <<"U+30D5", 12501>>, <<"U+30D8", 12504>>,
       <<"U+30DD", 12509>>, <<"U+30DE", 12510>>, <<"U+30E1", 12513>>, <<"U+30E3", 12515>>, <<"U+30E7", 12519>>,
       <<"U+30E9", 12521>>, <<"U+30EA", 12522>>, <<"U+30EB", 12523>>, <<"U+30EC", 12524>>, <<"U+30F3", 12531>>,
       <<"U+30FC", 12540>>, <<"U+4ECB", 20171>>, <<"U+4F1A", 20250>>, <<"U+4F53", 20307>>, <<"U+4F5C", 20316>>,
       <<"U+4FA1", 20385>>, <<"U+50CD", 20685>>, <<"U+5165", 20837>>, <<"U+516C", 20844>>, <<"U+52D5", 21205>>,
       <<"U+52E2", 21218>>, <<"U+5305", 21253>>, <<"U+5316", 21270>>, <<"U+533B", 21307>>, <<"U+5354", 21332>>,
       <<"U+53F2", 21490>>, <<"U+5411", 21521>>, <<"U+54F2", 21746>>, <<"U+554F", 21839>>, <<"U+5728", 22312>>,
       <<"U+5730", 22320>>, <<"U+57DF", 22495>>, <<"U+58EB", 22763>>, <<"U+5916", 22806>>, <<"U+5927", 22823>>,
       <<"U+59FF", 23039>>, <<"U+5B66", 23398>>, <<"U+5B85", 23429>>, <<"U+5BB3", 23475>>, <<"U+5EA6", 24230>>,
       <<"U+5FC3", 24515>>, <<"U+6027", 24615>>, <<"U+60A3", 24739>>, <<"U+6210", 25104>>, <<"U+62EC", 25324>>,
       <<"U+6559", 25945>>, <<"U+6587", 25991>>, <<"U+65B9", 26041>>, <<"U+65BD", 26045>>, <<"U+683C", 26684>>,
       <<"U+696D", 26989>>, <<"U+6A5F", 27231>>, <<"U+6B74", 27508>>, <<"U+6CBB", 27835>>, <<"U+6CD5", 27861>>,
       <<"U+72EC", 29420>>, <<"U+7406", 29702>>, <<"U+751F", 29983>>, <<"U+756A", 30058>>, <<"U+75C5", 30149>>,
       <<"U+75C7", 30151>>, <<"U+7642", 30274>>, <<"U+767A", 30330>>, <<"U+77E5", 30693>>, <<"U+7814", 30740>>,
       <<"U+795E", 31070>>, <<"U+79D1", 31185>>, <<"U+7A76", 31350>>, <<"U+7ACB", 31435>>, <<"U+7CBE", 31934>>,
       <<"U+7D44", 32068>>, <<"U+7DE8", 32232>>, <<"U+8005", 32773>>, <<"U+80B2", 32946>>, <<"U+80FD", 33021>>,
       <<"U+8846", 34886>>, <<"U+8853", 34899>>, <<"U+885B", 34907>>, <<"U+8A2A", 35370>>, <<"U+8A2D", 35373>>,
       <<"U+8A55", 35413>>, <<"U+8A8D", 35469>>, <<"U+8AD6", 35542>>, <<"U+8B77", 35703>>, <<"U+8CC7", 36039>>,
       <<"U+8D77", 36215>>, <<"U+8EAB", 36523>>, <<"U+9023", 36899>>, <<"U+904B", 36939>>, <<"U+9054", 36948>>,
       <<"U+95A2", 38306>>, <<"U+9662", 38498>>, <<"U+969C", 38556>>, <<"U+990A", 39178>>, <<"U+9AD8", 39640>>,
       <<"U+9F62", 40802>> >>

\* CodeUnit[c]: the code unit of character c.
CodeUnit ==
    [c \in {CodeUnits[k][1] : k \in DOMAIN CodeUnits} |->
        CodeUnits[CHOOSE k \in DOMAIN CodeUnits : CodeUnits[k][1] = c][2]]

\* a < b of two strings: the code units are compared from the left, and a proper
\* prefix is less.
RECURSIVE StringLess(_, _)
StringLess(a, b) ==
    IF Len(b) = 0 THEN FALSE
    ELSE IF Len(a) = 0 THEN TRUE
    ELSE IF a[1] = b[1] THEN StringLess(Tail(a), Tail(b))
    ELSE CodeUnit[a[1]] < CodeUnit[b[1]]

\* Array.prototype.sort() without a comparator, on an array of strings: ascending
\* by code units, stable.  InsertString puts x before the first greater element.
RECURSIVE InsertString(_, _)
InsertString(sorted, x) ==
    IF Len(sorted) = 0 THEN <<x>>
    ELSE IF StringLess(x, Head(sorted)) THEN <<x>> \o sorted
    ELSE <<Head(sorted)>> \o InsertString(Tail(sorted), x)

RECURSIVE SortStrings(_, _)
SortStrings(arr, k) ==
    IF k = 0 THEN <<>> ELSE InsertString(SortStrings(arr, k - 1), arr[k])

sort(arr) == SortStrings(arr, Len(arr))

(***************************************************************************)
(* Literals of the program                                                 *)
(***************************************************************************)

ExtraPrefix == <<"U+756A", "U+5916", "U+7DE8">>                \* 番外編
DotMd == <<".", "m", "d">>                                     \* .md
ReadmeName == <<"R", "E", "A", "D", "M", "E", ".", "m", "d">>  \* README.md
SummaryWord == <<"U+30B5", "U+30DE", "U+30EA", "U+30FC">>      \* サマリー
HeadingMark == <<"#", "#">>                                    \* ##
\* 番組の方向性
Episode0Title == <<"U+756A", "U+7D44", "U+306E", "U+65B9", "U+5411", "U+6027">>
\* エピソード and a space
EpisodeLabel == <<"U+30A8", "U+30D4", "U+30BD", "U+30FC", "U+30C9", " ">>

\* The theme vocabulary of extractThemes, in source order.
themePatterns ==
    <<
      <<"U+50CD", "U+304D", "U+65B9">>,   \* 働き方
      <<"U+30AD", "U+30E3", "U+30EA", "U+30A2">>,   \* キャリア
      <<"U+7406", "U+5B66", "U+7642", "U+6CD5">>,   \* 理学療法
      <<"U+6B74", "U+53F2">>,   \* 歴史
      <<"U+30E1", "U+30F3", "U+30BF", "U+30EB", "U+30D8", "U+30EB", "U+30B9">>,   \* メンタルヘルス
      <<"U+7CBE", "U+795E", "U+533B", "U+7642">>,   \* 精神医療
      <<"U+6559", "U+80B2">>,   \* 教育
      <<"U+7814", "U+7A76">>,   \* 研究
      <<"U+8D77", "U+696D">>,   \* 起業
      <<"U+30D3", "U+30B8", "U+30CD", "U+30B9">>,   \* ビジネス
      <<"U+54F2", "U+5B66">>,   \* 哲学
      <<"U+79D1", "U+5B66">>,   \* 科学
      <<"U+30A8", "U+30D3", "U+30C7", "U+30F3", "U+30B9">>,   \* エビデンス
      <<"U+8A55", "U+4FA1">>,   \* 評価
      <<"U+6CBB", "U+7642">>,   \* 治療
      <<"U+516C", "U+8846", "U+885B", "U+751F">>,   \* 公衆衛生
      <<"U+5730", "U+57DF", "U+5305", "U+62EC", "U+30B1", "U+30A2">>,   \* 地域包括ケア
      <<"U+9AD8", "U+9F62", "U+5316">>,   \* 高齢化
      <<"U+4ECB", "U+8B77">>,   \* 介護
      <<"U+767A", "U+9054", "U+969C", "U+5BB3">>,   \* 発達障害
      <<"U+8A8D", "U+77E5", "U+75C7">>,   \* 認知症
      <<"U+3046", "U+3064">>,   \* うつ
      <<"U+30B9", "U+30C8", "U+30EC", "U+30B9">>,   \* ストレス
      <<"U+30B9", "U+30DD", "U+30FC", "U+30C4">>,   \* スポーツ
      <<"U+30EA", "U+30CF", "U+30D3", "U+30EA", "U+30C6", "U+30FC", "U+30B7", "U+30E7", "U+30F3">>,   \* リハビリテーション
      <<"U+8EAB", "U+4F53">>,   \* 身体
      <<"U+904B", "U+52D5", "U+7642", "U+6CD5">>   \* 運動療法
    >>

\* The keyword vocabulary of extractKeywords, in source order.
importantTerms ==
    <<
      <<"U+30BB", "U+30E9", "U+30D4", "U+30B9", "U+30C8">>,   \* セラピスト
      <<"U+7406", "U+5B66", "U+7642", "U+6CD5", "U+58EB">>,   \* 理学療法士
      <<"P", "T">>,   \* PT
      <<"O", "T">>,   \* OT
      <<"U+4F5C", "U+696D", "U+7642", "U+6CD5", "U+58EB">>,   \* 作業療法士
      <<"U+60A3", "U+8005">>,   \* 患者
      <<"U+6CBB", "U+7642">>,   \* 治療
      <<"U+8A55", "U+4FA1">>,   \* 評価
      <<"U+4ECB", "U+5165">>,   \* 介入
      <<"U+30EA", "U+30CF", "U+30D3", "U+30EA">>,   \* リハビリ
      <<"U+75C5", "U+9662">>,   \* 病院
      <<"U+65BD", "U+8A2D">>,   \* 施設
      <<"U+5730", "U+57DF">>,   \* 地域
      <<"U+5728", "U+5B85">>,   \* 在宅
      <<"U+8A2A", "U+554F">>,   \* 訪問
      <<"U+30A8", "U+30D3", "U+30C7", "U+30F3", "U+30B9">>,   \* エビデンス
      <<"E", "B", "M">>,   \* EBM
      <<"U+7814", "U+7A76">>,   \* 研究
      <<"U+8AD6", "U+6587">>,   \* 論文
      <<"U+5B66", "U+8853">>,   \* 学術
      <<"U+6559", "U+80B2">>,   \* 教育
      <<"U+990A", "U+6210">>,   \* 養成
      <<"U+5927", "U+5B66">>,   \* 大学
      <<"U+5354", "U+4F1A">>,   \* 協会
      <<"U+8CC7", "U+683C">>,   \* 資格
      <<"U+30E1", "U+30F3", "U+30BF", "U+30EB">>,   \* メンタル
      <<"U+7CBE", "U+795E">>,   \* 精神
      <<"U+5FC3", "U+7406">>,   \* 心理
      <<"U+30B9", "U+30C8", "U+30EC", "U+30B9">>,   \* ストレス
      <<"U+30A6", "U+30A7", "U+30EB", "U+30D3", "U+30FC", "U+30A4", "U+30F3", "U+30B0">>,   \* ウェルビーイング
      <<"U+8D77", "U+696D">>,   \* 起業
      <<"U+72EC", "U+7ACB">>,   \* 独立
      <<"U+30D5", "U+30EA", "U+30FC", "U+30E9", "U+30F3", "U+30B9">>,   \* フリーランス
      <<"U+30B3", "U+30F3", "U+30B5", "U+30EB">>,   \* コンサル
      <<"U+904B", "U+52D5">>,   \* 運動
      <<"U+8EAB", "U+4F53">>,   \* 身体
      <<"U+6A5F", "U+80FD">>,   \* 機能
      <<"U+52D5", "U+4F5C">>,   \* 動作
      <<"U+59FF", "U+52E2">>   \* 姿勢
    >>

SummaryHeader == <<"#", "#", " ">> \o SummaryWord               \* "## サマリー"
SectionMark == <<"#", "#", "#">>                                \* ###
Glyph == "U+25C6"                                               \* ◆

(***************************************************************************)
(* Numbers.  A similarity score is a fraction of two small integers; it is *)
(* kept exact, as <<numerator, denominator>> in lowest terms.  For feature *)
(* sets of at most 7 terms each (the texts of this model stay below that)  *)
(* the comparison with the threshold and the rounded percentage of the     *)
(* exact value are those of the double arithmetic of the program.          *)
(***************************************************************************)

RECURSIVE GCD(_, _)
GCD(a, b) == IF b = 0 THEN a ELSE GCD(b, a % b)

\* The fraction n/d (n >= 0, d > 0) in lowest terms.
Rat(n, d) == LET g == GCD(n, d) IN <<n \div g, d \div g>>

RatAdd(x, y) == Rat(x[1] * y[2] + y[1] * x[2], x[2] * y[2])
RatMul(x, y) == Rat(x[1] * y[1], x[2] * y[2])
RatGeq(x, y) == x[1] * y[2] >= y[1] * x[2]

\* Math.round of a fraction that is not negative: halves round up.
MathRound(x) == (2 * x[1] + x[2]) \div (2 * x[2])

\* The default of findRelatedEpisodes' parameter threshold, 0.3.
DefaultThreshold == Rat(3, 10)

\* The length of a related list: slice(0, 5).
MaxRelated == 5

\* The length of a summary: substring(0, 500).
MaxSummary == 500

\* getOrder's offset of the extra episodes.
ExtraOffset == 1000

(***************************************************************************)
(* extractEpisodeId: /^(\d+(?:-\d+)?|番外編-\d+)\.md$/ matched from the    *)
(* left as the regular expression engine does.  After the digits of either *)
(* alternative the pattern wants a ".", which no digit and no "-" is, so   *)
(* the greedy match is the only candidate.                                 *)
(***************************************************************************)

\* The end of \d+(?:-\d+)? matched at the start of s, 0 when it does not match.
NumberedEnd(s) ==
    LET p1 == SkipDigits(s, 1)
        p2 == SkipDigits(s, p1 + 1)
    IN  IF p1 = 1 THEN 0
        ELSE IF p1 <= Len(s) /\ s[p1] = "-" /\ p2 > p1 + 1 THEN p2 - 1
        ELSE p1 - 1

\* The end of 番外編-\d+ matched at the start of s, 0 when it does not match.
ExtraEnd(s) ==
    LET q == Len(ExtraPrefix) + 2
        p == SkipDigits(s, q)
    IN  IF startsWith(s, ExtraPrefix \o <<"-">>) /\ p > q THEN p - 1 ELSE 0

\* extractEpisodeId for /^(\d+)(?:-\d+)?\.md$/ and the extra episodes: the group
\* closed before the suffix, so that the id is the integer part alone.
extractEpisodeIdIntegerPart(filename) ==
    LET n == NumberedEnd(filename)
        e == ExtraEnd(filename)
        rest(k) == SubSeq(filename, k + 1, Len(filename))
    IN  IF n > 0 /\ rest(n) = DotMd THEN SubSeq(filename, 1, SkipDigits(filename, 1) - 1)
        ELSE IF e > 0 /\ rest(e) = DotMd THEN SubSeq(filename, 1, e)
        ELSE Null

\* extractEpisodeId for /^(\d+|番外編-\d+)\.md$/: no hyphenated sub-episode.
extractEpisodeIdNoSuffix(filename) ==
    LET n == SkipDigits(filename, 1) - 1
        e == ExtraEnd(filename)
        rest(k) == SubSeq(filename, k + 1, Len(filename))
    IN  IF n > 0 /\ rest(n) = DotMd THEN SubSeq(filename, 1, n)
        ELSE IF e > 0 /\ rest(e) = DotMd THEN SubSeq(filename, 1, e)
        ELSE Null

\* The first alternative is tried first; the second only when the first, followed
\* by \.md$, does not match.
extractEpisodeId(filename) ==
    LET n == NumberedEnd(filename)
        e == ExtraEnd(filename)
        rest(k) == SubSeq(filename, k + 1, Len(filename))
    IN  IF n > 0 /\ rest(n) = DotMd THEN SubSeq(filename, 1, n)
        ELSE IF e > 0 /\ rest(e) = DotMd THEN SubSeq(filename, 1, e)
        ELSE Null

(***************************************************************************)
(* parseMarkdown and the vocabulary matchers                               *)
(***************************************************************************)

\* extractThemes: the terms of themePatterns the content includes, in vocabulary
\* order, without duplicates ([...new Set(themes)]).
RECURSIVE ThemesFrom(_, _, _)
ThemesFrom(content, themes, k) ==
    IF k > Len(themePatterns) THEN themes
    ELSE LET theme == themePatterns[k]
         IN  ThemesFrom(content,
                        IF includes(content, theme) /\ theme \notin ToSet(themes)
                        THEN Append(themes, theme) ELSE themes,
                        k + 1)

extractThemes(content) == ThemesFrom(content, <<>>, 1)

\* extractKeywords: keywordSet.add(term) for each term of importantTerms that the
\* text includes.  The Set is a sequence without duplicates, in insertion order.
RECURSIVE KeywordsFrom(_, _, _)
KeywordsFrom(text, keywordSet, k) ==
    IF k > Len(importantTerms) THEN keywordSet
    ELSE LET term == importantTerms[k]
         IN  KeywordsFrom(text,
                          IF includes(text, term) /\ term \notin ToSet(keywordSet)
                          THEN Append(keywordSet, term) ELSE keywordSet,
                          k + 1)

extractKeywords(text, keywordSet) == KeywordsFrom(text, keywordSet, 1)

\* line.replace(/^###\s*/, '').replace(/◆\s*/, ''): the heading marker and the
\* white space after it removed, then the first glyph and the white space after it.
SectionTitle(line) ==
    LET a == SubSeq(line, SkipSpace(line, Len(SectionMark) + 1), Len(line))
        g == IndexOfChar(a, Glyph, 1)
    IN  IF g > Len(a) THEN a
        ELSE SubSeq(a, 1, g - 1) \o SubSeq(a, SkipSpace(a, g + 1), Len(a))

\* One turn of parseMarkdown's loop over the lines; st is the loop's state.
ParseLine(st, rawLine) ==
    LET line == trim(rawLine)
    IN  IF startsWith(line, SummaryHeader)
        THEN [st EXCEPT !.inSummary = TRUE]
        ELSE LET leaves == st.inSummary
                           /\ (startsWith(line, HeadingMark) \/ startsWith(line, SectionMark))
                 pushes == st.inSummary /\ ~leaves /\ Len(line) > 0
             IN  [inSummary    |-> st.inSummary /\ ~leaves,
                  summaryLines |-> IF pushes THEN Append(st.summaryLines, line)
                                   ELSE st.summaryLines,
                  sections     |-> IF startsWith(line, SectionMark)
                                   THEN Append(st.sections, SectionTitle(line))
                                   ELSE st.sections,
                  keywords     |-> extractKeywords(line, st.keywords)]

RECURSIVE ParseLines(_, _, _)
ParseLines(st, lines, k) ==
    IF k > Len(lines) THEN st ELSE ParseLines(ParseLine(st, lines[k]), lines, k + 1)

\* Array.prototype.join(' ')
RECURSIVE JoinSpace(_)
JoinSpace(ls) ==
    IF Len(ls) = 0 THEN <<>>
    ELSE IF Len(ls) = 1 THEN ls[1]
    ELSE ls[1] \o <<" ">> \o JoinSpace(Tail(ls))

\* SummaryText without the substring: the whole captured text.
SummaryTextUncut(summaryLines) ==
    LET j == JoinSpace(summaryLines)
    IN  IF startsWith(j, <<">">>) THEN SubSeq(j, SkipSpace(j, 2), Len(j)) ELSE j

\* summaryLines.join(' ').replace(/^>\s*/, '').substring(0, 500)
SummaryText(summaryLines) ==
    LET j == JoinSpace(summaryLines)
        r == IF startsWith(j, <<">">>) THEN SubSeq(j, SkipSpace(j, 2), Len(j)) ELSE j
    IN  SubSeq(r, 1, Min(MaxSummary, Len(r)))

parseMarkdown(content, filename) ==
    LET st == ParseLines([inSummary |-> FALSE, summaryLines |-> <<>>,
                          sections |-> <<>>, keywords |-> <<>>],
                         split(content, "\n"), 1)
    IN  [summary  |-> SummaryText(st.summaryLines),
         themes   |-> extractThemes(content),
         keywords |-> st.keywords,
         sections |-> st.sections,
         content  |-> content]

\* The first line that starts with ## and does not include the summary word,
\* 0 when there is none.
RECURSIVE TitleLine(_, _)
TitleLine(lines, k) ==
    IF k > Len(lines) THEN 0
    ELSE IF startsWith(lines[k], HeadingMark) /\ ~includes(lines[k], SummaryWord) THEN k
    ELSE TitleLine(lines, k + 1)

\* What a call that throws a TypeError yields instead of a value; no string of the
\* model equals it, its one element being no character.
TypeError == <<"TypeError">>

\* id === '0' is false of null, and id.startsWith then throws.
generateTitle(filename, content) ==
    LET id == extractEpisodeId(filename)
        lines == split(content, "\n")
        k == TitleLine(lines, 1)
    IN  IF id = <<"0">> THEN Episode0Title
        ELSE IF id = Null THEN TypeError
        ELSE IF startsWith(id, ExtraPrefix) THEN ExtraPrefix \o <<" ">> \o split(id, "-")[2]
        ELSE IF k > 0
             THEN trim(SubSeq(lines[k], SkipSpace(lines[k], Len(HeadingMark) + 1), Len(lines[k])))
        ELSE EpisodeLabel \o id

(***************************************************************************)
(* The similarity engine                                                   *)
(***************************************************************************)

\* calculateSimilarity with each score taken relative to the first episode alone.
calculateSimilarityOneSided(episode1, episode2) ==
    LET keywords1 == ToSet(episode1.keywords)
        keywords2 == ToSet(episode2.keywords)
        themes1 == ToSet(episode1.themes)
        themes2 == ToSet(episode2.themes)
        sharedKeywords == Cardinality({k \in keywords1 : k \in keywords2})
        sharedThemes == Cardinality({t \in themes1 : t \in themes2})
        totalKeywords == Cardinality(keywords1) * 2
        totalThemes == Cardinality(themes1) * 2
        keywordScore == IF totalKeywords > 0 THEN Rat(sharedKeywords * 2, totalKeywords)
                        ELSE Rat(0, 1)
        themeScore == IF totalThemes > 0 THEN Rat(sharedThemes * 2, totalThemes)
                      ELSE Rat(0, 1)
    IN  RatAdd(RatMul(keywordScore, Rat(6, 10)), RatMul(themeScore, Rat(4, 10)))

\* calculateSimilarity on the arrays as they are, without new Set: an element an
\* array holds twice counts twice.
calculateSimilarityNoSet(episode1, episode2) ==
    LET sharedKeywords == Cardinality({k \in DOMAIN episode1.keywords :
                                          episode1.keywords[k] \in ToSet(episode2.keywords)})
        sharedThemes == Cardinality({t \in DOMAIN episode1.themes :
                                        episode1.themes[t] \in ToSet(episode2.themes)})
        totalKeywords == Len(episode1.keywords) + Len(episode2.keywords)
        totalThemes == Len(episode1.themes) + Len(episode2.themes)
        keywordScore == IF totalKeywords > 0 THEN Rat(sharedKeywords * 2, totalKeywords)
                        ELSE Rat(0, 1)
        themeScore == IF totalThemes > 0 THEN Rat(sharedThemes * 2, totalThemes)
                      ELSE Rat(0, 1)
    IN  RatAdd(RatMul(keywordScore, Rat(6, 10)), RatMul(themeScore, Rat(4, 10)))

calculateSimilarity(episode1, episode2) ==
    LET keywords1 == ToSet(episode1.keywords)
        keywords2 == ToSet(episode2.keywords)
        themes1 == ToSet(episode1.themes)
        themes2 == ToSet(episode2.themes)
        sharedKeywords == Cardinality({k \in keywords1 : k \in keywords2})
        sharedThemes == Cardinality({t \in themes1 : t \in themes2})
        totalKeywords == Cardinality(keywords1) + Cardinality(keywords2)
        totalThemes == Cardinality(themes1) + Cardinality(themes2)
        keywordScore == IF totalKeywords > 0 THEN Rat(sharedKeywords * 2, totalKeywords)
                        ELSE Rat(0, 1)
        themeScore == IF totalThemes > 0 THEN Rat(sharedThemes * 2, totalThemes)
                      ELSE Rat(0, 1)
    IN  RatAdd(RatMul(keywordScore, Rat(6, 10)), RatMul(themeScore, Rat(4, 10)))

\* Array.prototype.sort with the comparator (a, b) => key(a) - key(b): stable, so
\* elements of equal key keep their order.  InsertByKey puts x behind every
\* element whose key is not greater; keyed elements are <<key, element>>.
RECURSIVE InsertByKey(_, _)
InsertByKey(sorted, x) ==
    IF Len(sorted) = 0 THEN <<x>>
    ELSE IF Head(sorted)[1] <= x[1] THEN <<Head(sorted)>> \o InsertByKey(Tail(sorted), x)
    ELSE <<x>> \o sorted

RECURSIVE SortKeyed(_, _)
SortKeyed(keyed, k) ==
    IF k = 0 THEN <<>> ELSE InsertByKey(SortKeyed(keyed, k - 1), keyed[k])

\* related.sort((a, b) => b.similarity - a.similarity)
SortRelated(related) ==
    LET keyed == [k \in DOMAIN related |-> <<0 - related[k].similarity, related[k]>>]
        sorted == SortKeyed(keyed, Len(keyed))
    IN  [k \in DOMAIN sorted |-> sorted[k][2]]

\* RelatedFrom without the comparison of the ids: an episode is scored against itself.
RECURSIVE RelatedFromWithSelf(_, _, _, _)
RelatedFromWithSelf(currentEpisode, allEpisodes, threshold, k) ==
    IF k > Len(allEpisodes) THEN <<>>
    ELSE LET episode == allEpisodes[k]
             similarity == calculateSimilarity(currentEpisode, episode)
             rest == RelatedFromWithSelf(currentEpisode, allEpisodes, threshold, k + 1)
         IN  IF RatGeq(similarity, threshold)
             THEN <<[id |-> episode.id, title |-> episode.title,
                     similarity |-> MathRound(RatMul(similarity, Rat(100, 1)))]>> \o rest
             ELSE rest

\* RelatedFrom with the file name of the related episode taken for its id.
RECURSIVE RelatedFromFilename(_, _, _, _)
RelatedFromFilename(currentEpisode, allEpisodes, threshold, k) ==
    IF k > Len(allEpisodes) THEN <<>>
    ELSE LET episode == allEpisodes[k]
             similarity == calculateSimilarity(currentEpisode, episode)
             rest == RelatedFromFilename(currentEpisode, allEpisodes, threshold, k + 1)
         IN  IF episode.id # currentEpisode.id /\ RatGeq(similarity, threshold)
             THEN <<[id |-> episode.filename, title |-> episode.title,
                     similarity |-> MathRound(RatMul(similarity, Rat(100, 1)))]>> \o rest
             ELSE rest

\* The forEach of findRelatedEpisodes over allEpisodes[k..].
RECURSIVE RelatedFrom(_, _, _, _)
RelatedFrom(currentEpisode, allEpisodes, threshold, k) ==
    IF k > Len(allEpisodes) THEN <<>>
    ELSE LET episode == allEpisodes[k]
             similarity == calculateSimilarity(currentEpisode, episode)
             rest == RelatedFrom(currentEpisode, allEpisodes, threshold, k + 1)
         IN  IF episode.id # currentEpisode.id /\ RatGeq(similarity, threshold)
             THEN <<[id |-> episode.id, title |-> episode.title,
                     similarity |-> MathRound(RatMul(similarity, Rat(100, 1)))]>> \o rest
             ELSE rest

\* findRelatedEpisodes with every other episode kept, whatever its score.
findRelatedUnfiltered(currentEpisode, allEpisodes, threshold) ==
    LET sorted == SortRelated(RelatedFrom(currentEpisode, allEpisodes, Rat(0, 1), 1))
    IN  SubSeq(sorted, 1, Min(MaxRelated, Len(sorted)))

\* findRelatedEpisodes with the slice taken before the sort.
findRelatedCutFirst(currentEpisode, allEpisodes, threshold) ==
    LET related == RelatedFrom(currentEpisode, allEpisodes, threshold, 1)
    IN  SortRelated(SubSeq(related, 1, Min(MaxRelated, Len(related))))

findRelatedEpisodes(currentEpisode, allEpisodes, threshold) ==
    LET sorted == SortRelated(RelatedFrom(currentEpisode, allEpisodes, threshold, 1))
    IN  SubSeq(sorted, 1, Min(MaxRelated, Len(sorted)))

(***************************************************************************)
(* The order of the episodes                                               *)
(***************************************************************************)

getOrder(id) ==
    LET parts == split(id, "-")
    IN  IF id = <<"0">> THEN 0
        ELSE IF startsWith(id, ExtraPrefix) THEN ExtraOffset + parseInt(parts[2])
        ELSE parseInt(parts[1]) * 10
             + (IF Len(parts) >= 2 /\ Len(parts[2]) > 0 THEN parseInt(parts[2]) ELSE 0)

\* this.episodes.sort((a, b) => getOrder(a.id) - getOrder(b.id))
SortEpisodes(eps) ==
    LET keyed == [k \in DOMAIN eps |-> <<getOrder(eps[k].id), eps[k]>>]
        sorted == SortKeyed(keyed, Len(keyed))
    IN  [k \in DOMAIN sorted |-> sorted[k][2]]

\* The object generateIndex makes of an episode.
IndexEntry(ep) ==
    [id |-> ep.id, filename |-> ep.filename, title |-> ep.title, summary |-> ep.summary,
     themes |-> ep.themes, keywords |-> ep.keywords, sections |-> ep.sections,
     relatedEpisodes |-> ep.relatedEpisodes]

\* generateIndex; the time stamp generatedAt is left out.
generateIndex(eps) ==
    [totalEpisodes |-> Len(eps),
     episodes |-> [k \in DOMAIN eps |-> IndexEntry(eps[k])]]

\* allThemes.add(theme) for the themes of an episode from position t on; the Set
\* is a sequence without duplicates, in insertion order.
RECURSIVE AddThemes(_, _, _)
AddThemes(allThemes, epThemes, t) ==
    IF t > Len(epThemes) THEN allThemes
    ELSE AddThemes(IF epThemes[t] \in ToSet(allThemes) THEN allThemes
                   ELSE Append(allThemes, epThemes[t]),
                   epThemes, t + 1)

\* The forEach of getAllThemes over eps[k..].
RECURSIVE AllThemesFrom(_, _, _)
AllThemesFrom(eps, allThemes, k) ==
    IF k > Len(eps) THEN allThemes
    ELSE AllThemesFrom(eps, AddThemes(allThemes, eps[k].themes, 1), k + 1)

\* getAllThemes without the sort: the themes in the order they were first met.
getAllThemesUnsorted(eps) == AllThemesFrom(eps, <<>>, 1)

\* getAllThemes: Array.from(allThemes).sort()
getAllThemes(eps) == sort(AllThemesFrom(eps, <<>>, 1))

(***************************************************************************)
(* initKnowledgeGraph of app.js: the edges of the graph of related         *)
(* episodes, made of the episodes of the index the page has loaded.        *)
(***************************************************************************)

\* The least similarity of an edge: rel.similarity >= 30.
MinEdgeSimilarity == 30

\* The divisor of an edge's value: rel.similarity / 20.
EdgeValueDivisor == 20

\* 関連度 and ": ", the start of an edge's title
RelevanceLabel == <<"U+95A2", "U+9023", "U+5EA6", ":", " ">>

\* [ep.id, rel.id].sort().join('-')
EdgeId(epId, relId) ==
    LET pair == sort(<<epId, relId>>) IN pair[1] \o <<"-">> \o pair[2]

\* ep.relatedEpisodes.forEach(rel => ...) from position r on; graphEdges is the
\* array edges so far.
RECURSIVE EdgesOfEpisode(_, _, _)
EdgesOfEpisode(graphEdges, ep, r) ==
    IF r > Len(ep.relatedEpisodes) THEN graphEdges
    ELSE LET rel == ep.relatedEpisodes[r]
             edgeId == EdgeId(ep.id, rel.id)
             found == \E e \in DOMAIN graphEdges : graphEdges[e].id = edgeId
         IN  EdgesOfEpisode(
                 IF rel.similarity >= MinEdgeSimilarity /\ ~found
                 THEN Append(graphEdges,
                             [id |-> edgeId, from |-> ep.id, to |-> rel.id,
                              value |-> Rat(rel.similarity, EdgeValueDivisor),
                              title |-> RelevanceLabel \o Numeral(rel.similarity) \o <<"%">>])
                 ELSE graphEdges,
                 ep, r + 1)

\* this.episodes.forEach(ep => ...) from position k on.
RECURSIVE EdgesFrom(_, _, _)
EdgesFrom(eps, graphEdges, k) ==
    IF k > Len(eps) THEN graphEdges
    ELSE EdgesFrom(eps, EdgesOfEpisode(graphEdges, eps[k], 1), k + 1)

\* The array edges of initKnowledgeGraph.
initKnowledgeGraph(eps) == EdgesFrom(eps, <<>>, 1)

(***************************************************************************)
(* The corpus: file names and texts                                        *)
(***************************************************************************)

\* The most files of a directory of the specification Spec.
MaxFiles == 4

\* The most files of a directory of the specification SpecCorpus.
MaxCorpus == 7

\* The most elements of a keywords or themes array handed to calculateSimilarity
\* in the specification SpecSim.
MaxFeatures == 2

\* "## 理学療法士の研究"
DocPT ==
    <<"#", "#", " ", "U+7406", "U+5B66", "U+7642", "U+6CD5", "U+58EB", "U+306E", "U+7814", "U+7A76">>

\* "## サマリー", "> PT教育", "## 研究と教育"
DocEdu ==
    JoinLines(<< <<"#", "#", " ", "U+30B5", "U+30DE", "U+30EA", "U+30FC">>,
                 <<">", " ", "P", "T", "U+6559", "U+80B2">>,
                 <<"#", "#", " ", "U+7814", "U+7A76", "U+3068", "U+6559", "U+80B2">> >>)

\* "## 理学療法士とPTの教育"
DocMix ==
    <<"#", "#", " ", "U+7406", "U+5B66", "U+7642", "U+6CD5", "U+58EB", "U+3068", "P", "T",
      "U+306E", "U+6559", "U+80B2">>

\* "## PT教育と理学療法": against DocPT it shares one theme and no keyword (score
\* 0.2), against DocEdu two keywords and one theme (score 0.68)
DocFar ==
    <<"#", "#", " ", "P", "T", "U+6559", "U+80B2", "U+3068", "U+7406", "U+5B66", "U+7642",
      "U+6CD5">>

\* "memo": a text without any term of the vocabularies
DocNone == <<"m", "e", "m", "o">>

\* The files a directory of Spec is made of: <<name, text>>.
Corpus ==
    << << <<"0", ".", "m", "d">>, DocNone >>,                                    \* 0.md
       << <<"1", ".", "m", "d">>, DocPT >>,                                      \* 1.md
       << <<"2", ".", "m", "d">>, DocEdu >>,                                     \* 2.md
       << <<"2", "-", "1", ".", "m", "d">>, DocMix >>,                           \* 2-1.md
       << <<"U+756A", "U+5916", "U+7DE8", "-", "1", ".", "m", "d">>, DocPT >>,   \* 番外編-1.md
       << <<"1", "0", "1", ".", "m", "d">>, DocEdu >>,                           \* 101.md
       << <<"0", "-", "0", ".", "m", "d">>, DocNone >>,                          \* 0-0.md
       << <<"R", "E", "A", "D", "M", "E", ".", "m", "d">>, DocPT >>,             \* README.md
       << <<"i", "n", "d", "e", "x", ".", "m", "d">>, DocMix >>,                 \* index.md
       << <<"n", "o", "t", "e", "s", ".", "t", "x", "t">>, DocEdu >> >>          \* notes.txt

FileNames == {Corpus[k][1] : k \in DOMAIN Corpus}

TextOf(name) == Corpus[CHOOSE k \in DOMAIN Corpus : Corpus[k][1] = name][2]

\* The directory listings of at most n files out of the names S, in any order.
Listings(S, n) ==
    UNION {{l \in [1..k -> S] : \A a, b \in 1..k : a # b => l[a] # l[b]} : k \in 0..n}

\* The texts a file of SpecCorpus may hold.
Documents == {DocPT, DocEdu, DocFar}

\* 1.md, 2.md, ...: the file names of SpecCorpus.
NumberedName(n) == Numeral(n) \o DotMd

(***************************************************************************)
(* The build: new EpisodeProcessor(sourceDir, outputDir), processAllFiles, *)
(* saveIndex, as the script runs them.                                     *)
(***************************************************************************)

NoCall == [fn |-> "none"]

\* The state after the constructor, for a directory listing and its texts.
Constructed(listing, texts) ==
    /\ sourceDir = listing
    /\ fileContent = texts
    /\ pc = "start"
    /\ files = <<>>
    /\ fileIdx = 1
    /\ episodes = <<>>
    /\ relIdx = 1
    /\ index = Null
    /\ themesFile = Null
    /\ results = <<>>
    /\ page = "closed"
    /\ response = Null
    /\ appEpisodes = <<>>
    /\ edges = Null
    /\ call = NoCall

\* The five files of the example of the sort order, in any order.
ExampleListings ==
    LET names == {Corpus[k][1] : k \in 1..5}
    IN  {l \in [1..5 -> names] : \A a, b \in 1..5 : a # b => l[a] # l[b]}

Init ==
    \E listing \in Listings(FileNames, MaxFiles) \cup ExampleListings :
        Constructed(listing, [f \in ToSet(listing) |-> TextOf(f)])

InitCorpus ==
    \E n \in 0..MaxCorpus :
        \E texts \in [{NumberedName(k) : k \in 1..n} -> Documents] :
            Constructed([k \in 1..n |-> NumberedName(k)], texts)

\* readdirSync(...).filter(f => f.endsWith('.md') && f !== 'README.md')
ListFiles(listing) == SelectSeq(listing, LAMBDA f : endsWith(f, DotMd) /\ f # ReadmeName)

ReadDir ==
    /\ pc = "start"
    /\ files' = ListFiles(sourceDir)
    /\ fileIdx' = 1
    /\ pc' = "pass1"
    /\ UNCHANGED <<sourceDir, fileContent, episodes, relIdx, index, themesFile, results, pageVars, call>>

\* parseMarkdown of every text of the model, computed once: parseMarkdown reads
\* its content only, never its filename.
ParsedTexts ==
    [content \in Documents \cup {Corpus[k][2] : k \in DOMAIN Corpus} |->
        parseMarkdown(content, <<>>)]

\* The record the first pass pushes for a file.
NewEpisode(file) ==
    LET content == fileContent[file]
        parsed == ParsedTexts[content]
    IN  [id |-> extractEpisodeId(file), filename |-> file,
         title |-> generateTitle(file, content),
         summary |-> parsed.summary, themes |-> parsed.themes,
         keywords |-> parsed.keywords, sections |-> parsed.sections,
         content |-> parsed.content]

\* One turn of the first pass.
ParseFile ==
    /\ pc = "pass1"
    /\ fileIdx <= Len(files)
    /\ episodes' = IF extractEpisodeId(files[fileIdx]) = Null THEN episodes
                   ELSE Append(episodes, NewEpisode(files[fileIdx]))
    /\ fileIdx' = fileIdx + 1
    /\ UNCHANGED <<sourceDir, fileContent, pc, files, relIdx, index, themesFile, results, pageVars, call>>

\* EndFirstPass without the test of the loop: the second pass begins while files
\* are left to parse.
EndFirstPassEarly ==
    /\ pc = "pass1"
    /\ pc' = "pass2"
    /\ relIdx' = 1
    /\ UNCHANGED <<sourceDir, fileContent, files, fileIdx, episodes, index, themesFile, results, pageVars, call>>

\* The first pass is over; the second begins.
EndFirstPass ==
    /\ pc = "pass1"
    /\ fileIdx > Len(files)
    /\ pc' = "pass2"
    /\ relIdx' = 1
    /\ UNCHANGED <<sourceDir, fileContent, files, fileIdx, episodes, index, themesFile, results, pageVars, call>>

\* episode.relatedEpisodes = ...: the property is added, or assigned anew.
SetRelated(episode, related) ==
    [f \in DOMAIN episode \cup {"relatedEpisodes"} |->
        IF f = "relatedEpisodes" THEN related ELSE episode[f]]

\* One turn of the second pass.
RelateEpisode ==
    /\ pc = "pass2"
    /\ relIdx <= Len(episodes)
    /\ episodes' = [episodes EXCEPT ![relIdx] =
                       SetRelated(@, findRelatedEpisodes(@, episodes, DefaultThreshold))]
    /\ relIdx' = relIdx + 1
    /\ UNCHANGED <<sourceDir, fileContent, pc, files, fileIdx, index, themesFile, results, pageVars, call>>

\* The second pass is over: the episodes are sorted and processAllFiles returns.
SortAndReturn ==
    /\ pc = "pass2"
    /\ relIdx > Len(episodes)
    /\ episodes' = SortEpisodes(episodes)
    /\ results' = Append(results, SortEpisodes(episodes))
    /\ pc' = "done"
    /\ UNCHANGED <<sourceDir, fileContent, files, fileIdx, relIdx, index, themesFile, pageVars, call>>

\* saveIndex: the index is generated and written, and the theme list with it.
SaveIndex ==
    /\ pc = "done"
    /\ index' = generateIndex(episodes)
    /\ themesFile' = getAllThemes(episodes)
    /\ pc' = "saved"
    /\ UNCHANGED <<sourceDir, fileContent, files, fileIdx, episodes, relIdx, results, pageVars, call>>

Next ==
    \/ ReadDir
    \/ ParseFile
    \/ EndFirstPass
    \/ RelateEpisode
    \/ SortAndReturn
    \/ SaveIndex

\* The build of a directory of some of the files of Corpus, in any order.
Spec == Init /\ [][Next]_vars

\* The build of a directory of numbered files holding any of the Documents.
SpecCorpus == InitCorpus /\ [][Next]_vars

(***************************************************************************)
(* processAllFiles called again on the same processor                      *)
(***************************************************************************)

\* The most files of a directory of the specification SpecTwice.
MaxTwiceFiles == 2

\* The most calls of processAllFiles on a processor in SpecTwice.
MaxRuns == 2

InitTwice ==
    \E listing \in Listings(FileNames, MaxTwiceFiles) :
        Constructed(listing, [f \in ToSet(listing) |-> TextOf(f)])

\* processAllFiles has returned and is called again, on the same processor and the
\* same directory: nothing of the processor is reset.
ProcessAgain ==
    /\ pc \in {"done", "saved"}
    /\ Len(results) < MaxRuns
    /\ pc' = "start"
    /\ UNCHANGED <<sourceDir, fileContent, files, fileIdx, episodes, relIdx, index, themesFile,
                   results, pageVars, call>>

NextTwice ==
    \/ Next
    \/ ProcessAgain

\* Builds of a directory by one processor, one after the other.
SpecTwice == InitTwice /\ [][NextTwice]_vars

(***************************************************************************)
(* The graph of a directory whose file names hold hyphens                  *)
(***************************************************************************)

\* The most files of a directory of the specification SpecGraph.
MaxGraphFiles == 4

\* The file names of SpecGraph: 1.md, 1-2.md, 2-3.md, 3.md.
GraphNames ==
    { <<"1", ".", "m", "d">>, <<"1", "-", "2", ".", "m", "d">>,
      <<"2", "-", "3", ".", "m", "d">>, <<"3", ".", "m", "d">> }

\* The texts a file of SpecGraph may hold.
GraphDocuments == {DocPT, DocNone}

InitGraph ==
    \E listing \in Listings(GraphNames, MaxGraphFiles) :
        \E texts \in [ToSet(listing) -> GraphDocuments] :
            Constructed(listing, texts)

\* The text of a file of the directory is changed while no build runs.
ChangeFile ==
    /\ pc = "saved"
    /\ Len(results) < MaxRuns
    /\ \E f \in DOMAIN fileContent :
         \E text \in GraphDocuments \ {fileContent[f]} :
             fileContent' = [fileContent EXCEPT ![f] = text]
    /\ UNCHANGED <<sourceDir, pc, files, fileIdx, episodes, relIdx, index, themesFile, results,
                   pageVars, call>>

\* The script is run again: a new processor is constructed for the directory.
RunAgain ==
    /\ pc = "saved"
    /\ Len(results) < MaxRuns
    /\ pc' = "start"
    /\ files' = <<>>
    /\ fileIdx' = 1
    /\ episodes' = <<>>
    /\ relIdx' = 1
    /\ UNCHANGED <<sourceDir, fileContent, index, themesFile, results, pageVars, call>>

\* The page is opened: the constructor, init, and loadData up to its fetch of the
\* index, which is awaited.
OpenPage ==
    /\ page = "closed"
    /\ page' = "fetching"
    /\ appEpisodes' = <<>>
    /\ UNCHANGED <<sourceDir, fileContent, pc, files, fileIdx, episodes, relIdx, index,
                   themesFile, results, response, edges, call>>

\* The fetch resolves with the index as it is written at that moment (with no
\* index yet, a response that is no JSON); response.json() is awaited.
FetchIndex ==
    /\ page = "fetching"
    /\ response' = index
    /\ page' = "parsing"
    /\ UNCHANGED <<sourceDir, fileContent, pc, files, fileIdx, episodes, relIdx, index,
                   themesFile, results, appEpisodes, edges, call>>

\* The fetch rejects: the catch of init shows the error, and no listener is set.
FetchFails ==
    /\ page = "fetching"
    /\ page' = "failed"
    /\ UNCHANGED <<sourceDir, fileContent, pc, files, fileIdx, episodes, relIdx, index,
                   themesFile, results, response, appEpisodes, edges, call>>

\* response.json() settles: this.episodes = data.episodes and the rest of init,
\* which sets the listeners; a response that is no JSON ends in the catch of init.
\* The strings, integers and arrays of the index come back from JSON as written.
LoadData ==
    /\ page = "parsing"
    /\ IF response = Null
       THEN page' = "failed" /\ UNCHANGED appEpisodes
       ELSE page' = "ready" /\ appEpisodes' = response.episodes
    /\ UNCHANGED <<sourceDir, fileContent, pc, files, fileIdx, episodes, relIdx, index,
                   themesFile, results, response, edges, call>>

\* The graph button is clicked for the first time (this.network is null):
\* switchView calls initKnowledgeGraph, which makes the edges of this.episodes.
ShowGraph ==
    /\ page = "ready"
    /\ edges' = initKnowledgeGraph(appEpisodes)
    /\ page' = "graph"
    /\ UNCHANGED <<sourceDir, fileContent, pc, files, fileIdx, episodes, relIdx, index,
                   themesFile, results, response, appEpisodes, call>>

NextGraph ==
    \/ Next
    \/ ChangeFile
    \/ RunAgain
    \/ OpenPage
    \/ FetchIndex
    \/ FetchFails
    \/ LoadData
    \/ ShowGraph

\* Builds of a directory of numbered and hyphenated files by the script, and the
\* page that loads the index and shows its graph.
SpecGraph == InitGraph /\ [][NextGraph]_vars

(***************************************************************************)
(* calculateSimilarity called on two records                               *)
(***************************************************************************)

\* The terms the arrays of SpecSim are made of: PT, 研究 and 教育, 科学.
SimKeywords == {<<"P", "T">>, <<"U+7814", "U+7A76">>}
SimThemes == {<<"U+6559", "U+80B2">>, <<"U+79D1", "U+5B66">>}

\* The arrays of at most n elements of S, duplicates included.
Arrays(S, n) == UNION {[1..k -> S] : k \in 0..n}

InitSim ==
    /\ \E ka, kb \in Arrays(SimKeywords, MaxFeatures) :
       \E ta, tb \in Arrays(SimThemes, MaxFeatures) :
           call = [fn |-> "calculateSimilarity",
                   a |-> [keywords |-> ka, themes |-> ta],
                   b |-> [keywords |-> kb, themes |-> tb],
                   returned |-> FALSE, ab |-> Null, ba |-> Null]
    /\ sourceDir = <<>>
    /\ fileContent = <<>>
    /\ pc = "idle"
    /\ files = <<>>
    /\ fileIdx = 1
    /\ episodes = <<>>
    /\ relIdx = 1
    /\ index = Null
    /\ themesFile = Null
    /\ results = <<>>
    /\ page = "closed"
    /\ response = Null
    /\ appEpisodes = <<>>
    /\ edges = Null

\* calculateSimilarity(a, b) and calculateSimilarity(b, a) return.
CallSimilarity ==
    /\ call.fn = "calculateSimilarity"
    /\ ~call.returned
    /\ call' = [call EXCEPT !.returned = TRUE,
                            !.ab = calculateSimilarity(call.a, call.b),
                            !.ba = calculateSimilarity(call.b, call.a)]
    /\ UNCHANGED <<sourceDir, fileContent, pc, files, fileIdx, episodes, relIdx, index, themesFile, results, pageVars>>

NextSim == CallSimilarity

\* calculateSimilarity on any two records of small arrays.
SpecSim == InitSim /\ [][NextSim]_vars

(***************************************************************************)
(* parseMarkdown and generateTitle called on a document                    *)
(***************************************************************************)

\* The most lines of a document of the specification SpecParse.
MaxDocLines == 3

\* The length of the long line of SummaryLines.
LongLineLen == 260

\* "## サマリー 理学療法士": a summary header with a keyword after the marker
HeaderWithTerm == SummaryHeader \o <<" ", "U+7406", "U+5B66", "U+7642", "U+6CD5", "U+58EB">>

\* "> PTの教育"
QuoteLine == <<">", " ", "P", "T", "U+306E", "U+6559", "U+80B2">>

\* "## 研究の歴史"
HeadingLine == <<"#", "#", " ", "U+7814", "U+7A76", "U+306E", "U+6B74", "U+53F2">>

\* "### ◆ 評価"
SectionLine == <<"#", "#", "#", " ", "U+25C6", " ", "U+8A55", "U+4FA1">>

\* The lines the short documents of SpecParse are made of.
DocLines == {SummaryHeader, HeaderWithTerm, QuoteLine, HeadingLine, SectionLine, DocNone}

\* "理学療法士の教育と研究、", the phrase the long line repeats
Phrase ==
    <<"U+7406", "U+5B66", "U+7642", "U+6CD5", "U+58EB", "U+306E", "U+6559", "U+80B2", "U+3068",
      "U+7814", "U+7A76", "U+3001">>

\* A line of LongLineLen characters.
LongLine == [k \in 1..LongLineLen |-> Phrase[((k - 1) % Len(Phrase)) + 1]]

\* The lines the long documents of SpecParse are made of.
SummaryLines == {SummaryHeader, LongLine, HeadingLine}

\* The file names generateTitle is called with: 0.md, 3.md, 2-1.md, 番外編-2.md,
\* and README.md, a name extractEpisodeId does not accept.
TitleFileNames ==
    { <<"0", ".", "m", "d">>, <<"3", ".", "m", "d">>, <<"2", "-", "1", ".", "m", "d">>,
      <<"U+756A", "U+5916", "U+7DE8", "-", "2", ".", "m", "d">>, ReadmeName }

\* No processor has been constructed.
NoBuild ==
    /\ sourceDir = <<>>
    /\ fileContent = <<>>
    /\ pc = "idle"
    /\ files = <<>>
    /\ fileIdx = 1
    /\ episodes = <<>>
    /\ relIdx = 1
    /\ index = Null
    /\ themesFile = Null
    /\ results = <<>>
    /\ page = "closed"
    /\ response = Null
    /\ appEpisodes = <<>>
    /\ edges = Null

InitParse ==
    /\ \E ls \in Arrays(DocLines, MaxDocLines) \cup Arrays(SummaryLines, MaxDocLines) :
         \/ call = [fn |-> "parseMarkdown", content |-> JoinLines(ls),
                    filename |-> <<"3", ".", "m", "d">>, returned |-> FALSE, result |-> Null]
         \/ \E name \in TitleFileNames :
                call = [fn |-> "generateTitle", content |-> JoinLines(ls),
                        filename |-> name, returned |-> FALSE, result |-> Null]
    /\ NoBuild

\* parseMarkdown(content, filename) returns.
CallParseMarkdown ==
    /\ call.fn = "parseMarkdown"
    /\ ~call.returned
    /\ call' = [call EXCEPT !.returned = TRUE,
                            !.result = parseMarkdown(call.content, call.filename)]
    /\ UNCHANGED <<sourceDir, fileContent, pc, files, fileIdx, episodes, relIdx, index,
                   themesFile, results, pageVars>>

\* generateTitle(filename, content) returns.
CallGenerateTitle ==
    /\ call.fn = "generateTitle"
    /\ ~call.returned
    /\ call' = [call EXCEPT !.returned = TRUE,
                            !.result = generateTitle(call.filename, call.content)]
    /\ UNCHANGED <<sourceDir, fileContent, pc, files, fileIdx, episodes, relIdx, index,
                   themesFile, results, pageVars>>

NextParse ==
    \/ CallParseMarkdown
    \/ CallGenerateTitle

\* parseMarkdown and generateTitle on any document of a few lines.
SpecParse == InitParse /\ [][NextParse]_vars

(***************************************************************************)
(* Properties of the related lists                                         *)
(***************************************************************************)

\* The positions of the episodes whose relatedEpisodes has been assigned.
Related == {k \in DOMAIN episodes : "relatedEpisodes" \in DOMAIN episodes[k]}

\* processAllFiles has returned.
Returned == pc \in {"done", "saved"}

\* The positions of the other episodes that qualify for the related list of
\* episodes[k]: another id, and a raw score of at least 0.3.
Qualifying(k) ==
    {j \in DOMAIN episodes :
        /\ episodes[j].id # episodes[k].id
        /\ RatGeq(calculateSimilarity(episodes[k], episodes[j]), Rat(3, 10))}

\* The rounded percentage of the score of episodes[k] against episodes[j].
Percentage(k, j) == MathRound(RatMul(calculateSimilarity(episodes[k], episodes[j]), Rat(100, 1)))

\* C1: once processAllFiles has returned, no episode lists its own id among its
\* related episodes.
C1_NoSelfRelation ==
    Returned =>
        \A k \in DOMAIN episodes :
            \A r \in DOMAIN episodes[k].relatedEpisodes :
                episodes[k].relatedEpisodes[r].id # episodes[k].id

\* processAllFiles has returned an episode that has related episodes and whose
\* score against itself reaches the threshold.
C1_Witness ==
    /\ Returned
    /\ \E k \in DOMAIN episodes :
        /\ Len(episodes[k].relatedEpisodes) > 0
        /\ RatGeq(calculateSimilarity(episodes[k], episodes[k]), Rat(3, 10))

\* C2: in the index generateIndex made, every id of a related list is the id of an
\* episode of the index.
C2_RelatedResolve ==
    pc = "saved" =>
        \A k \in DOMAIN index.episodes :
            \A r \in DOMAIN index.episodes[k].relatedEpisodes :
                \E j \in DOMAIN index.episodes :
                    index.episodes[j].id = index.episodes[k].relatedEpisodes[r].id

\* An index has been written in which an episode has related episodes.
C2_Witness ==
    /\ pc = "saved"
    /\ \E k \in DOMAIN index.episodes : Len(index.episodes[k].relatedEpisodes) > 0

\* C3: a related list has at most 5 entries, and the similarity of every entry is
\* an integer from 30 to 100.
C3_BoundedRelated ==
    \A k \in Related :
        /\ Len(episodes[k].relatedEpisodes) <= 5
        /\ \A r \in DOMAIN episodes[k].relatedEpisodes :
            episodes[k].relatedEpisodes[r].similarity \in 30..100

\* The positions of the other episodes whose score against episodes[k] is above 0
\* and below 0.3.
BelowThreshold(k) ==
    {j \in DOMAIN episodes :
        /\ episodes[j].id # episodes[k].id
        /\ ~RatGeq(Rat(0, 1), calculateSimilarity(episodes[k], episodes[j]))
        /\ ~RatGeq(calculateSimilarity(episodes[k], episodes[j]), Rat(3, 10))}

\* More than 5 episodes qualify for the list of an episode, which holds 5 entries,
\* one of them of a similarity below 100; and the list of another episode is made
\* although an episode of a rounded percentage of 20 does not qualify for it.
C3_Witness ==
    /\ \E k \in Related :
        /\ Cardinality(Qualifying(k)) > 5
        /\ Len(episodes[k].relatedEpisodes) = 5
        /\ \E r \in 1..5 : episodes[k].relatedEpisodes[r].similarity < 100
    /\ \E k \in Related :
        /\ Len(episodes[k].relatedEpisodes) > 0
        /\ \E j \in BelowThreshold(k) : Percentage(k, j) = 20

\* C4: when processAllFiles has returned, the related list of an episode holds
\* episodes that qualify, each once, with the rounded percentage of its score; it is
\* ordered by non-increasing percentage; it holds all that qualify when they are at
\* most 5 and 5 of them otherwise; and no qualifying episode left out has a greater
\* percentage than a listed one.
C4_TopFive ==
    pc = "done" =>
        \A k \in DOMAIN episodes :
            LET list == episodes[k].relatedEpisodes
                Q == Qualifying(k)
                pct == [j \in Q |-> Percentage(k, j)]
                Listed == {j \in Q : \E r \in DOMAIN list : list[r].id = episodes[j].id}
            IN  /\ \A r \in DOMAIN list :
                    \E j \in Q :
                        /\ list[r].id = episodes[j].id
                        /\ list[r].title = episodes[j].title
                        /\ list[r].similarity = pct[j]
                /\ \A r, q \in DOMAIN list : r # q => list[r].id # list[q].id
                /\ \A r \in 1..(Len(list) - 1) : list[r].similarity >= list[r + 1].similarity
                /\ Len(list) = Min(5, Cardinality(Q))
                /\ \A j \in Q \ Listed :
                    \A r \in DOMAIN list : pct[j] <= list[r].similarity

\* More than 5 episodes qualify for the list of an episode, and one of those left
\* out comes, in the order of the corpus, before a listed one of a greater percentage;
\* and fewer than 5 qualify for the list of another episode, which lists them all
\* and leaves out episodes of a score above 0 and below 0.3.
C4_Witness ==
    /\ pc = "done"
    /\ \E k \in DOMAIN episodes :
        /\ Cardinality(Qualifying(k)) \in 1..4
        /\ Len(episodes[k].relatedEpisodes) = Cardinality(Qualifying(k))
        /\ BelowThreshold(k) # {}
    /\ \E k \in DOMAIN episodes :
        LET list == episodes[k].relatedEpisodes
            Q == Qualifying(k)
        IN  /\ Cardinality(Q) > 5
            /\ \E j \in Q :
                /\ \A r \in DOMAIN list : list[r].id # episodes[j].id
                /\ \E i \in Q :
                    /\ j < i
                    /\ Percentage(k, i) > Percentage(k, j)
                    /\ \E r \in DOMAIN list : list[r].id = episodes[i].id

(***************************************************************************)
(* Properties of calculateSimilarity                                       *)
(***************************************************************************)

\* Both calls of calculateSimilarity have returned.
SimReturned == call.fn = "calculateSimilarity" /\ call.returned

\* C5: calculateSimilarity(a, b) equals calculateSimilarity(b, a).
C5_Symmetric == SimReturned => call.ab = call.ba

\* The two records differ in the number of their keywords and of their themes and
\* share a keyword, and both scores have been computed.
C5_Witness ==
    /\ SimReturned
    /\ Cardinality(ToSet(call.a.keywords)) # Cardinality(ToSet(call.b.keywords))
    /\ Cardinality(ToSet(call.a.themes)) # Cardinality(ToSet(call.b.themes))
    /\ ToSet(call.a.keywords) \cap ToSet(call.b.keywords) # {}
    /\ call.ab[1] > 0

\* The records of the worked example: A with keywords PT, 研究 and theme 教育,
\* B with keyword PT and themes 教育, 科学.
WorkedExample ==
    /\ ToSet(call.a.keywords) = {<<"P", "T">>, <<"U+7814", "U+7A76">>}
    /\ ToSet(call.a.themes) = {<<"U+6559", "U+80B2">>}
    /\ ToSet(call.b.keywords) = {<<"P", "T">>}
    /\ ToSet(call.b.themes) = {<<"U+6559", "U+80B2">>, <<"U+79D1", "U+5B66">>}

\* C6: the score is 0.6 K + 0.4 T, K and T the Dice coefficients of the keyword sets
\* and of the theme sets (0 for two empty sets); it lies in [0, 1]; and the rounded
\* percentage of the worked example is 67.
C6_WeightedDice ==
    SimReturned =>
        LET ka == ToSet(call.a.keywords)
            kb == ToSet(call.b.keywords)
            ta == ToSet(call.a.themes)
            tb == ToSet(call.b.themes)
            kd == Cardinality(ka) + Cardinality(kb)
            td == Cardinality(ta) + Cardinality(tb)
            K == IF kd = 0 THEN <<0, 1>> ELSE <<2 * Cardinality(ka \cap kb), kd>>
            T == IF td = 0 THEN <<0, 1>> ELSE <<2 * Cardinality(ta \cap tb), td>>
            score == call.ab
        IN  /\ score[2] > 0
            /\ score[1] * (10 * K[2] * T[2]) = (6 * K[1] * T[2] + 4 * T[1] * K[2]) * score[2]
            /\ 0 <= score[1]
            /\ score[1] <= score[2]
            /\ WorkedExample => MathRound(RatMul(score, Rat(100, 1))) = 67

\* The score of the worked example has been computed.
C6_Witness == SimReturned /\ WorkedExample

(***************************************************************************)
(* Properties of the accepted files and of their order                     *)
(***************************************************************************)

AllDigits(s) == Len(s) > 0 /\ \A k \in DOMAIN s : s[k] \in Digit

\* digits-hyphen-digits
Hyphenated(s) ==
    \E k \in DOMAIN s :
        s[k] = "-" /\ AllDigits(SubSeq(s, 1, k - 1)) /\ AllDigits(SubSeq(s, k + 1, Len(s)))

\* 番外編-digits
ExtraId(s) ==
    /\ Len(s) > 4
    /\ SubSeq(s, 1, 4) = <<"U+756A", "U+5916", "U+7DE8", "-">>
    /\ AllDigits(SubSeq(s, 5, Len(s)))

\* digits or digits-hyphen-digits
NumberedId(s) == AllDigits(s) \/ Hyphenated(s)

\* The name of an episode file: one of the three forms followed by .md
EpisodeFileName(f) ==
    /\ Len(f) > 3
    /\ SubSeq(f, Len(f) - 2, Len(f)) = <<".", "m", "d">>
    /\ LET stem == SubSeq(f, 1, Len(f) - 3) IN NumberedId(stem) \/ ExtraId(stem)

\* C7: an episode is always of a file of the directory whose name has one of the
\* three forms; once processAllFiles has returned every such file has its episode,
\* and so in the index.
C7_AcceptedFiles ==
    /\ \A k \in DOMAIN episodes :
        /\ episodes[k].filename \in ToSet(sourceDir)
        /\ EpisodeFileName(episodes[k].filename)
    /\ Returned =>
        \A f \in ToSet(sourceDir) :
            EpisodeFileName(f) => \E k \in DOMAIN episodes : episodes[k].filename = f
    /\ pc = "saved" =>
        {index.episodes[k].filename : k \in DOMAIN index.episodes}
            = {f \in ToSet(sourceDir) : EpisodeFileName(f)}

\* An index has been written for a directory that holds README.md, notes.txt, a
\* file of another name that ends in .md, and an episode file with a hyphen.
C7_Witness ==
    /\ pc = "saved"
    /\ <<"R", "E", "A", "D", "M", "E", ".", "m", "d">> \in ToSet(sourceDir)
    /\ <<"n", "o", "t", "e", "s", ".", "t", "x", "t">> \in ToSet(sourceDir)
    /\ <<"i", "n", "d", "e", "x", ".", "m", "d">> \in ToSet(sourceDir)
    /\ \E k \in DOMAIN index.episodes : index.episodes[k].id = <<"2", "-", "1">>

\* C8: the ids of the episodes are pairwise distinct, and so in the index.
C8_UniqueIds ==
    /\ \A i, j \in DOMAIN episodes : i # j => episodes[i].id # episodes[j].id
    /\ pc = "saved" =>
        \A i, j \in DOMAIN index.episodes :
            i # j => index.episodes[i].id # index.episodes[j].id

\* An index has been written that holds the episodes 2 and 2-1.
C8_Witness ==
    /\ pc = "saved"
    /\ \E i, j \in DOMAIN index.episodes :
        index.episodes[i].id = <<"2">> /\ index.episodes[j].id = <<"2", "-", "1">>

\* C9: in the episodes processAllFiles returns, every extra episode comes after
\* every numbered episode.
C9_ExtrasLast ==
    Returned =>
        \A i, j \in DOMAIN episodes :
            (ExtraId(episodes[i].id) /\ NumberedId(episodes[j].id)) => j < i

\* The integer part of a numbered id times 10, plus its suffix (0 without one).
NumberedOrder(id) ==
    LET h == IndexOfChar(id, "-", 1)
    IN  10 * DecimalValue(id, h - 1)
        + (IF h > Len(id) THEN 0
           ELSE LET suffix == SubSeq(id, h + 1, Len(id)) IN DecimalValue(suffix, Len(suffix)))

\* The ids of the example, in the order the specification gives: 0, 1, 2, 2-1, 番外編-1.
ExampleOrder ==
    << <<"0">>, <<"1">>, <<"2">>, <<"2", "-", "1">>, <<"U+756A", "U+5916", "U+7DE8", "-", "1">> >>

\* C10: processAllFiles returns the episodes with id "0" first, the numbered ids
\* ascending by integer part * 10 + suffix, and the five ids of the example in the
\* order 0, 1, 2, 2-1, 番外編-1.
C10_CanonicalOrder ==
    Returned =>
        /\ (\E k \in DOMAIN episodes : episodes[k].id = <<"0">>) => episodes[1].id = <<"0">>
        /\ \A i, j \in DOMAIN episodes :
            (i < j /\ NumberedId(episodes[i].id) /\ NumberedId(episodes[j].id))
                => NumberedOrder(episodes[i].id) <= NumberedOrder(episodes[j].id)
        /\ {episodes[k].id : k \in DOMAIN episodes} = ToSet(ExampleOrder)
            => [k \in DOMAIN episodes |-> episodes[k].id] = ExampleOrder

(***************************************************************************)
(* Properties of the parser, the vocabulary matcher and the title          *)
(***************************************************************************)

\* parseMarkdown has returned.
ParseReturned == call.fn = "parseMarkdown" /\ call.returned

\* generateTitle has returned.
TitleReturned == call.fn = "generateTitle" /\ call.returned

\* C11: a term of the keyword vocabulary is among the keywords of the record if and
\* only if it occurs in the text of the document, and a term of the theme vocabulary
\* is among its themes if and only if it occurs in the text.
C11_VocabularyMatch ==
    ParseReturned =>
        /\ \A k \in DOMAIN importantTerms :
            (importantTerms[k] \in ToSet(call.result.keywords))
                <=> includes(call.content, importantTerms[k])
        /\ \A k \in DOMAIN themePatterns :
            (themePatterns[k] \in ToSet(call.result.themes))
                <=> includes(call.content, themePatterns[k])

\* A line that is a level-2 heading: it starts with ## and not with ###.
LevelTwoHeading(line) == startsWith(line, HeadingMark) /\ ~startsWith(line, SectionMark)

\* C12: for a numbered id other than "0" (an id that is neither "0" nor an
\* extra-episode id), generateTitle returns
\* the text of the first level-2 heading line that is not the summary header, the
\* heading marker stripped and the rest trimmed, and the label made of the id when
\* the document has no such line.
C12_TitleFromHeading ==
    TitleReturned =>
        LET id == SubSeq(call.filename, 1, Len(call.filename) - Len(DotMd))
            lines == split(call.content, "\n")
            headings == {k \in DOMAIN lines :
                            /\ LevelTwoHeading(lines[k])
                            /\ ~startsWith(trim(lines[k]), SummaryHeader)}
            first == CHOOSE k \in headings : \A j \in headings : k <= j
        IN  (NumberedId(id) /\ id # <<"0">>) =>
                IF headings = {} THEN call.result = EpisodeLabel \o id
                ELSE call.result = trim(SubSeq(lines[first], Len(HeadingMark) + 1, Len(lines[first])))

\* The lines of a document that are summary header lines: trimmed, they start with
\* the summary header.
HeaderLines(content) ==
    LET lines == split(content, "\n")
    IN  {k \in DOMAIN lines : startsWith(trim(lines[k]), SummaryHeader)}

\* C13: the summary parseMarkdown produces has at most 500 characters, and it is
\* the empty string when the document has no summary header line.
C13_SummaryBound ==
    ParseReturned =>
        /\ Len(call.result.summary) <= 500
        /\ HeaderLines(call.content) = {} => call.result.summary = <<>>

\* parseMarkdown has returned a summary of 500 characters for a document whose
\* summary header is followed by more than 500 characters of text.
C13_Witness ==
    /\ ParseReturned
    /\ Len(call.result.summary) = 500
    /\ \E k \in HeaderLines(call.content) :
        LET lines == split(call.content, "\n")
        IN  /\ k + 2 <= Len(lines)
            /\ ~startsWith(lines[k + 1], HeadingMark)
            /\ ~startsWith(lines[k + 2], HeadingMark)
            /\ Len(lines[k + 1]) + Len(lines[k + 2]) > 500

(***************************************************************************)
(* Properties of the order of the two passes                               *)
(***************************************************************************)

\* The features of a record that the first pass builds.
Built(ep) == <<ep.id, ep.filename, ep.title, ep.themes, ep.keywords>>

\* The records of eps with the features b, by position.
WithFeatures(eps, b) == {k \in DOMAIN eps : Built(eps[k]) = b}

\* Every accepted file of the directory has its record among the episodes.
AllBuilt ==
    \A f \in ToSet(sourceDir) :
        EpisodeFileName(f) =>
            \E k \in DOMAIN episodes :
                /\ episodes[k].filename = f
                /\ episodes[k].id = SubSeq(f, 1, Len(f) - 3)
                /\ {"title", "themes", "keywords"} \subseteq DOMAIN episodes[k]

\* C14: a step that computes the relatedEpisodes of an episode is taken only when
\* every accepted file has its record, and from the first such step on no step adds
\* or removes a record or changes the id, title, themes or keywords of one.
C14_PassesOrdered ==
    [][ /\ (\E k \in DOMAIN episodes' :
              /\ "relatedEpisodes" \in DOMAIN episodes'[k]
              /\ (k \notin DOMAIN episodes \/ episodes'[k] # episodes[k]))
            => AllBuilt
        /\ Related # {}
            => /\ Len(episodes') = Len(episodes)
               /\ \A k \in DOMAIN episodes :
                   Cardinality(WithFeatures(episodes', Built(episodes[k])))
                       = Cardinality(WithFeatures(episodes, Built(episodes[k])))
      ]_vars

\* The second pass is under way for a directory of at least three accepted files:
\* an episode has its related episodes, another has none yet.
C14_Witness ==
    /\ pc = "pass2"
    /\ Len(episodes) >= 3
    /\ Related # {}
    /\ Related # DOMAIN episodes
    /\ \E k \in Related : Len(episodes[k].relatedEpisodes) > 0

(***************************************************************************)
(* Properties of repeated builds                                           *)
(***************************************************************************)

\* C15: when processAllFiles has returned twice for the same directory, the
\* episodes of the second return are those of the first.
C15_Deterministic ==
    Len(results) >= 2 => results[2] = results[1]

(***************************************************************************)
(* Properties of the theme list                                            *)
(***************************************************************************)

\* C16: the theme list saveIndex writes holds exactly the themes of the episodes
\* of the index, each once, in ascending order, and every one is a term of the
\* theme vocabulary.
C16_ThemeList ==
    pc = "saved" =>
        /\ ToSet(themesFile) =
               UNION {ToSet(index.episodes[k].themes) : k \in DOMAIN index.episodes}
        /\ \A i, j \in DOMAIN themesFile : i # j => themesFile[i] # themesFile[j]
        /\ \A i \in 1..(Len(themesFile) - 1) : StringLess(themesFile[i], themesFile[i + 1])
        /\ \A i \in DOMAIN themesFile : themesFile[i] \in ToSet(themePatterns)

\* A theme list has been written for an index in which two episodes share a theme
\* and in which the themes, in the order the episodes give them, are not ascending:
\* the list is 教育, 理学療法, 研究.
C16_Witness ==
    /\ pc = "saved"
    /\ themesFile = << <<"U+6559", "U+80B2">>, <<"U+7406", "U+5B66", "U+7642", "U+6CD5">>,
                       <<"U+7814", "U+7A76">> >>
    /\ \E i, j \in DOMAIN index.episodes :
        /\ i # j
        /\ ToSet(index.episodes[i].themes) \cap ToSet(index.episodes[j].themes) # {}
    /\ getAllThemesUnsorted(index.episodes) # themesFile

(***************************************************************************)
(* Properties of the graph of related episodes                             *)
(***************************************************************************)

\* The ends of an edge.
EdgePair(e) == {e.from, e.to}

\* The pairs {a, b} of ids of episodes of the page of which one lists the other
\* among its related episodes.
RelatedPairs ==
    UNION {{{ep.id, ep.relatedEpisodes[r].id} : r \in DOMAIN ep.relatedEpisodes} :
              ep \in ToSet(appEpisodes)}

\* C17: the edges initKnowledgeGraph makes are one edge for each pair of episodes
\* of which one lists the other as related, and no other edge.
C17_OneEdgePerPair ==
    page = "graph" =>
        /\ \A P \in RelatedPairs :
            Cardinality({e \in DOMAIN edges : EdgePair(edges[e]) = P}) = 1
        /\ \A e \in DOMAIN edges : EdgePair(edges[e]) \in RelatedPairs

====
